---------------------------- MODULE Spec2Model ----------------------------
(***************************************************************************)
(* Conversation memory of maiar-ai: MemoryService                          *)
(* (packages/core/src/memory/service.ts) over a persistence collaborator   *)
(* (MemoryProvider).  Every async method of the service is a sequence of   *)
(* steps separated by its awaits; the code between two awaits runs         *)
(* atomically (single-threaded cooperative scheduling), and several calls  *)
(* ("turns") may be in flight at once and interleave at the awaits.        *)
(* The same turns call the capability layer of maiar-client/src/components/ *)
(* Chat.tsx: ModelProviderBase, LoggingModelDecorator and PluginRegistry.   *)
(***************************************************************************)
EXTENDS Integers, Sequences, FiniteSets, TLC

\* ------------------------------------------------------------------ bounds
\* Date.now() and the timestamps callers pass range over 1..MaxTime.
MaxTime == 2
\* Number of messages already stored when a history read starts.
MaxStored == 2
\* Total number of service calls started in one behaviour.
MaxCalls == 2
\* Number of processing steps that follow the first element of a context chain.
ChainSteps == 1

\* The concurrent callers of the service (logical turns in flight).
Turns == {"t1", "t2"}

\* ------------------------------------------------------------------ inputs
Users == {"u", "v"}
Platforms == {"web"}
Times == 1..MaxTime

\* An optional string (undefined | string) is <<>> or <<s>>.
None == <<>>
Some(s) == <<s>>

\* Mutant: only undefined is falsy.
Truthy_DefinedOnly(o) == o # None

\* if (x) on an optional string: undefined and "" are falsy.
Truthy(o) == o # None /\ o[1] # ""

\* The messageId argument of storeUserInteraction.
MessageIdArgs == {None, Some(""), Some("m1")}

\* BaseContextItem, reduced to the fields the service reads or serializes.
UserItems == {[id |-> None, type |-> "user"], [id |-> Some(""), type |-> "user"], [id |-> Some("m1"), type |-> "user"]}
StepItem == [id |-> Some("s1"), type |-> "step"]

RECURSIVE Steps(_)
Steps(n) == IF n = 0 THEN <<>> ELSE <<StepItem>> \o Steps(n - 1)

\* The contextChain argument of storeAssistantInteraction.
Chains == {<<>>} \cup {<<h>> \o Steps(ChainSteps) : h \in UserItems}

\* ------------------------------------------------------- pure functions
\* Mutant: user and platform swapped.
generateConversationId_Swapped(user, platform) == user \o "-" \o platform

\* Mutant: the user is left out of the id.
generateConversationId_PlatformOnly(user, platform) == platform

\* `${platform}-${user}`
generateConversationId(user, platform) == platform \o "-" \o user

\* Mutant: the supplied messageId is ignored.
finalMessageId_AlwaysGenerated(messageId, platform, timestamp) == platform \o "-" \o ToString(timestamp)

\* messageId || `${platform}-${timestamp}`
finalMessageId(messageId, platform, timestamp) == IF Truthy(messageId) THEN messageId[1] ELSE platform \o "-" \o ToString(timestamp)

\* `${conversationId}-context-${timestamp}`
contextId(conversationId, timestamp) == conversationId \o "-context-" \o ToString(timestamp)

\* `${conversationId}-assistant-${timestamp}`
assistantMessageId(conversationId, timestamp) == conversationId \o "-assistant-" \o ToString(timestamp)

\* Mutant: the id of the last element of the chain.
userMessageIdOf_Last(chain) == IF chain = <<>> THEN None ELSE chain[Len(chain)].id

\* contextChain[0]?.id
userMessageIdOf(chain) == IF chain = <<>> THEN None ELSE chain[1].id

\* JSON.stringify of one item: an undefined id is left out of the object.
StringifyItem(item) == "{" \o (IF item.id = None THEN "" ELSE "\"id\":\"" \o item.id[1] \o "\",") \o "\"type\":\"" \o item.type \o "\"}"

RECURSIVE StringifyItems(_)
StringifyItems(chain) == IF chain = <<>> THEN "" ELSE IF Len(chain) = 1 THEN StringifyItem(chain[1]) ELSE StringifyItem(chain[1]) \o "," \o StringifyItems(SubSeq(chain, 2, Len(chain)))

\* JSON.stringify(contextChain)
JSONstringify(chain) == "[" \o StringifyItems(chain) \o "]"

\* The Message record storeUserInteraction hands to storeMessage.
userMessage(id, content, timestamp) == [id |-> id, role |-> "user", content |-> content, timestamp |-> timestamp, contextId |-> None, user_message_id |-> None]

\* Mutant: the message refers to its own id instead of the context's.
assistantMessage_OwnId(id, content, timestamp, ctxId, userMessageId) == [id |-> id, role |-> "assistant", content |-> content, timestamp |-> timestamp, contextId |-> Some(id), user_message_id |-> Some(userMessageId)]

\* The Message record storeAssistantInteraction hands to storeMessage.
assistantMessage(id, content, timestamp, ctxId, userMessageId) == [id |-> id, role |-> "assistant", content |-> content, timestamp |-> timestamp, contextId |-> Some(ctxId), user_message_id |-> Some(userMessageId)]

\* Mutant: only the first element of the chain is serialized.
contextRecord_FirstOnly(id, chain, timestamp) == [id |-> id, type |-> "context_chain", content |-> JSONstringify(SubSeq(chain, 1, 1)), timestamp |-> timestamp]

\* The Context record storeAssistantInteraction hands to storeContext.
contextRecord(id, chain, timestamp) == [id |-> id, type |-> "context_chain", content |-> JSONstringify(chain), timestamp |-> timestamp]

\* ------------------------------------------------------------------- state
VARIABLES
  pc,        \* per turn: the provider call it is suspended on, "idle" or "done"
  op,        \* per turn: the service method called and its arguments
  loc,       \* per turn: the locals conversationId and timestamp
  trace,     \* per turn: events published and provider calls made by the current call, in order
  result,    \* per turn: what the current call returned or raised
  convs,     \* provider: ids of the conversations that exist
  messages,  \* provider: stored messages, oldest first, each with its conversation
  contexts,  \* provider: stored contexts, oldest first, each with its conversation
  creates,   \* number of createConversation requests that reached the provider, per id
  now,       \* the clock Date.now() reads
  ncalls,    \* service calls started so far
  modelCapabilities,  \* the underlying model provider's capabilities Map
  modelHasInit,       \* whether the underlying model provider has the optional init()
  decorator,          \* the LoggingModelDecorator's capabilities Map, once constructed
  plugins             \* PluginRegistry.plugins, in insertion order

vars == <<pc, op, loc, trace, result, convs, messages, contexts, creates, now, ncalls, modelCapabilities, modelHasInit, decorator, plugins>>
\* The state of the capability layer and of the plugin registry.
componentVars == <<modelCapabilities, modelHasInit, decorator, plugins>>
\* The state of the memory service's collaborators and counters.
memoryVars == <<convs, messages, contexts, creates, now, ncalls>>
turnVars == <<pc, op, loc, trace, result>>
storeVars == <<convs, messages, contexts>>

ConvIds == {generateConversationId(u, p) : u \in Users, p \in Platforms}

NoOp == [name |-> "none", user |-> "", platform |-> "", text |-> "", timestamp |-> 0, messageId |-> None, chain |-> <<>>, limit |-> 0, target |-> "", capabilityId |-> "", input |-> "", config |-> None, plugin |-> None, pluginId |-> None, record |-> None]
NoLoc == [conversationId |-> "", timestamp |-> 0, capability |-> None]
Pending == [status |-> "pending", value |-> <<>>, error |-> ""]
Returned(v) == [status |-> "returned", value |-> v, error |-> ""]
Raised(e) == [status |-> "raised", value |-> <<>>, error |-> e]

\* MonitorService.publishEvent({type, ...})
Event(type) == [kind |-> "event", name |-> type, conv |-> "", arg |-> <<>>, ok |-> TRUE]
\* One call of a MemoryProvider method and whether it resolved (ok) or rejected.
Call(method, conv, arg, ok) == [kind |-> "call", name |-> method, conv |-> conv, arg |-> arg, ok |-> ok]

\* The error a rejected provider call carries.
ProviderError(method) == "provider: " \o method \o " failed"
MissingUserMessageId == "No user message ID found in context chain"

Init ==
  /\ pc = [t \in Turns |-> "idle"]
  /\ op = [t \in Turns |-> NoOp]
  /\ loc = [t \in Turns |-> NoLoc]
  /\ trace = [t \in Turns |-> <<>>]
  /\ result = [t \in Turns |-> Pending]
  /\ convs = {}
  /\ messages = <<>>
  /\ contexts = <<>>
  /\ creates = [c \in ConvIds |-> 0]
  /\ now = 1
  /\ ncalls = 0
  /\ modelCapabilities = <<>>
  /\ modelHasInit = FALSE
  /\ decorator = None
  /\ plugins = <<>>

\* ---------------------------------------------------- persistence collaborator
\* getConversation(conversationId) fails if the conversation is absent.
ProviderHasConversation(id) == id \in convs

\* createConversation({id}): the conversation exists afterwards; creating an
\* existing id again is idempotent.
ProviderCreate(id) == convs \cup {id}

\* storeMessage / storeContext append the record to the conversation.
ProviderAppend(store, rec, id) == Append(store, [conv |-> id, rec |-> rec])

RECURSIVE OfConversation(_, _)
OfConversation(store, id) == IF store = <<>> THEN <<>> ELSE (IF store[1].conv = id THEN <<store[1].rec>> ELSE <<>>) \o OfConversation(SubSeq(store, 2, Len(store)), id)

\* deleteConversation removes the conversation with its messages and contexts.
RECURSIVE WithoutConversation(_, _)
WithoutConversation(store, id) == IF store = <<>> THEN <<>> ELSE (IF store[1].conv = id THEN <<>> ELSE <<store[1]>>) \o WithoutConversation(SubSeq(store, 2, Len(store)), id)

\* getContexts(conversationId)
getContexts(id) == OfConversation(contexts, id)

\* getMessages({conversationId, limit}): the most recent `limit` messages, oldest first.
ProviderGetMessages(id, limit) == LET all == OfConversation(messages, id) IN IF Len(all) <= limit THEN all ELSE SubSeq(all, Len(all) - limit + 1, Len(all))

\* ------------------------------------------------------------- turn helpers
\* A settled call's continuation in the caller is a microtask: it runs before
\* any other callback, so a provider call settles only when no turn is "done".
Running(t, at) == pc[t] = at /\ \A x \in Turns : pc[x] # "done"

SetTurn(t, newPc, newLoc, newTrace, newResult) ==
  /\ pc' = [pc EXCEPT ![t] = newPc]
  /\ loc' = [loc EXCEPT ![t] = newLoc]
  /\ trace' = [trace EXCEPT ![t] = newTrace]
  /\ result' = [result EXCEPT ![t] = newResult]

\* A new call may start on turn t.
CanBegin(t) == Running(t, "idle") /\ ncalls < MaxCalls

\* A new call of the method o.name starts on turn t.
Begin(t, o) ==
  /\ CanBegin(t)
  /\ ncalls' = ncalls + 1
  /\ op' = [op EXCEPT ![t] = o]

\* Mutant: the catch block publishes its failure event twice.
FailureEvents_Twice(name) ==
  IF name = "storeUserInteraction" THEN <<Event("memory.user.interaction.failed"), Event("memory.user.interaction.failed")>>
  ELSE IF name = "storeAssistantInteraction" THEN <<Event("memory.assistant.interaction.failed"), Event("memory.assistant.interaction.failed")>>
  ELSE <<>>

\* The failure event of the catch block of method `name`;
\* getOrCreateConversation and deleteConversation have no catch of their own.
FailureEvents(name) ==
  IF name = "storeUserInteraction" THEN <<Event("memory.user.interaction.failed")>>
  ELSE IF name = "storeAssistantInteraction" THEN <<Event("memory.assistant.interaction.failed")>>
  ELSE <<>>

\* The method o.name on turn t throws e: its catch block logs and rethrows.
Throw(t, o, l, tr, e) == SetTurn(t, "done", l, tr \o FailureEvents(o.name), Raised(e))

\* ------------------------------------------ storeAssistantInteraction, l.126-172
\* Runs once getOrCreateConversation has resolved, up to the await of
\* storeContext; T is what Date.now() returns.
AssistantAfterConversation(t, o, l, tr, T) ==
  LET tr1 == tr \o <<Event("memory.conversation.retrieved"), Event("memory.context.chain.processing")>>
      l1 == [l EXCEPT !.timestamp = T]
  IN /\ now' = T
     /\ IF ~Truthy(userMessageIdOf(o.chain))
        THEN Throw(t, o, l1, tr1, MissingUserMessageId)
        ELSE SetTurn(t, "storeContext", l1, tr1 \o <<Event("memory.message.id.extracted"), Event("memory.service.store_context.called")>>, Pending)

\* ------------------------------------------------ storeUserInteraction, l.58-84
\* Runs once getOrCreateConversation has resolved, up to the await of storeMessage.
UserAfterConversation(t, o, l, tr) ==
  SetTurn(t, "storeMessage", l, tr \o <<Event("memory.conversation.retrieved"), Event("memory.message.id.generated"), Event("memory.service.store_message.called")>>, Pending)

\* getOrCreateConversation has resolved with l.conversationId: its caller continues.
AfterConversation(t, o, l, tr) ==
  IF o.name = "storeAssistantInteraction" THEN \E T \in now..MaxTime : AssistantAfterConversation(t, o, l, tr, T)
  ELSE IF o.name = "storeUserInteraction" THEN now' = now /\ UserAfterConversation(t, o, l, tr)
  ELSE now' = now /\ SetTurn(t, "done", l, tr, Returned(<<l.conversationId>>))

\* ------------------------------------------------------------------ calls
\* Mutant: the outcome of getConversation is ignored, the catch branch always runs.
ConversationFound_Never(id, fault) == FALSE

\* Mutant: getOrCreateConversation takes every lookup for a hit and never creates.
ConversationFound_Always(id, fault) == TRUE

\* try { await this.getConversation(id) } found the conversation, l.291-294:
\* any rejection, not-found or not, takes the catch branch.
ConversationFound(id, fault) == ProviderHasConversation(id) /\ ~fault

\* getOrCreateConversation(user, platform), l.286-296, entered by method o with
\* firstTrace already published: the id is derived and provider.getConversation
\* is called; `fault` is a provider failure other than not-found.
getOrCreateConversation(t, o, firstTrace, fault) ==
  /\ Begin(t, o)
  /\ LET id == generateConversationId(o.user, o.platform)
         l == [NoLoc EXCEPT !.conversationId = id]
         ok == ConversationFound(id, fault)
         tr == firstTrace \o <<Event("memory.service.get_conversation.called"), Call("getConversation", id, <<>>, ok)>>
     IN IF ok
        THEN AfterConversation(t, o, l, tr)
        ELSE /\ now' = now
             /\ SetTurn(t, "createConversation", l, tr \o <<Event("memory.service.create_conversation.called")>>, Pending)
  /\ UNCHANGED <<storeVars, creates, componentVars>>

Call_getOrCreateConversation(t, user, platform, fault) ==
  getOrCreateConversation(t, [NoOp EXCEPT !.name = "getOrCreateConversation", !.user = user, !.platform = platform], <<>>, fault)

\* storeUserInteraction, l.41-56, to the return of getConversation.
Call_storeUserInteraction(t, user, platform, message, timestamp, messageId, fault) ==
  getOrCreateConversation(t, [NoOp EXCEPT !.name = "storeUserInteraction", !.user = user, !.platform = platform, !.text = message, !.timestamp = timestamp, !.messageId = messageId], <<Event("memory.user.interaction.storing")>>, fault)

\* storeAssistantInteraction, l.110-124, to the return of getConversation.
Call_storeAssistantInteraction(t, user, platform, response, contextChain, fault) ==
  getOrCreateConversation(t, [NoOp EXCEPT !.name = "storeAssistantInteraction", !.user = user, !.platform = platform, !.text = response, !.chain = contextChain], <<Event("memory.assistant.interaction.storing")>>, fault)

\* Mutant: the conversation is looked up again and created only if still absent.
Return_createConversation_Rechecked(t, fault) ==
  /\ Running(t, "createConversation")
  /\ LET id == loc[t].conversationId
         exists == ProviderHasConversation(id)
         tr == IF exists THEN trace[t] ELSE Append(trace[t], Call("createConversation", id, <<>>, ~fault))
     IN /\ creates' = IF exists THEN creates ELSE [creates EXCEPT ![id] = @ + 1]
        /\ IF fault /\ ~exists
           THEN now' = now /\ convs' = convs /\ Throw(t, op[t], loc[t], tr, ProviderError("createConversation"))
           ELSE convs' = ProviderCreate(id) /\ AfterConversation(t, op[t], loc[t], tr)
  /\ UNCHANGED <<op, messages, contexts, ncalls, componentVars>>

\* provider.createConversation settles; getOrCreateConversation l.296-297.
Return_createConversation(t, fault) ==
  /\ Running(t, "createConversation")
  /\ LET id == loc[t].conversationId
         tr == Append(trace[t], Call("createConversation", id, <<>>, ~fault))
     IN /\ creates' = [creates EXCEPT ![id] = @ + 1]
        /\ IF fault
           THEN now' = now /\ convs' = convs /\ Throw(t, op[t], loc[t], tr, ProviderError("createConversation"))
           ELSE convs' = ProviderCreate(id) /\ AfterConversation(t, op[t], loc[t], tr)
  /\ UNCHANGED <<op, messages, contexts, ncalls, componentVars>>

\* provider.storeContext settles with `fault`; the awaiting method throws when
\* `thrown`, and otherwise goes on to call storeMessage.
StoreContextSettles(t, fault, thrown) ==
  /\ Running(t, "storeContext")
  /\ LET id == loc[t].conversationId
         ts == loc[t].timestamp
         ctx == contextRecord(contextId(id, ts), op[t].chain, ts)
         tr == Append(trace[t], Call("storeContext", id, <<ctx>>, ~fault))
     IN /\ contexts' = IF fault THEN contexts ELSE ProviderAppend(contexts, ctx, id)
        /\ IF thrown
           THEN Throw(t, op[t], loc[t], tr, ProviderError("storeContext"))
           ELSE SetTurn(t, "storeMessage", loc[t], tr \o <<Event("memory.context.stored"), Event("memory.service.store_message.called")>>, Pending)
  /\ UNCHANGED <<op, convs, messages, creates, now, ncalls, componentVars>>

\* Mutant: the rejection of storeContext is not awaited, the message is written anyway.
Return_storeContext_Unawaited(t, fault) == StoreContextSettles(t, fault, FALSE)

\* await this.storeContext(...), storeAssistantInteraction l.164-182.
Return_storeContext(t, fault) == StoreContextSettles(t, fault, fault)

\* The message the method on turn t passes to storeMessage, l.76-84 and l.182-192.
MessageToStore(t) ==
  LET id == loc[t].conversationId
      ts == loc[t].timestamp
  IN IF op[t].name = "storeUserInteraction"
     THEN userMessage(finalMessageId(op[t].messageId, op[t].platform, op[t].timestamp), op[t].text, op[t].timestamp)
     ELSE assistantMessage(assistantMessageId(id, ts), op[t].text, ts, contextId(id, ts), userMessageIdOf(op[t].chain)[1])

\* Mutant: a failed storeMessage is compensated by deleting the context the
\* call wrote before it.
Return_storeMessage_Compensated(t, fault) ==
  /\ Running(t, "storeMessage")
  /\ LET id == loc[t].conversationId
         msg == MessageToStore(t)
         tr == Append(trace[t], Call("storeMessage", id, <<msg>>, ~fault))
         done == IF op[t].name = "storeUserInteraction" THEN Event("memory.message.stored") ELSE Event("memory.assistant.interaction.completed")
     IN IF fault
        THEN /\ messages' = messages
             /\ contexts' = IF op[t].name = "storeAssistantInteraction" THEN SelectSeq(contexts, LAMBDA c : ~(c.conv = id /\ Some(c.rec.id) = msg.contextId)) ELSE contexts
             /\ Throw(t, op[t], loc[t], tr, ProviderError("storeMessage"))
        ELSE /\ messages' = ProviderAppend(messages, msg, id)
             /\ contexts' = contexts
             /\ SetTurn(t, "done", loc[t], Append(tr, done), Returned(<<>>))
  /\ UNCHANGED <<op, convs, creates, now, ncalls, componentVars>>

\* provider.storeMessage settles; l.84-91 and l.192-199.
Return_storeMessage(t, fault) ==
  /\ Running(t, "storeMessage")
  /\ LET id == loc[t].conversationId
         msg == MessageToStore(t)
         tr == Append(trace[t], Call("storeMessage", id, <<msg>>, ~fault))
         done == IF op[t].name = "storeUserInteraction" THEN Event("memory.message.stored") ELSE Event("memory.assistant.interaction.completed")
     IN IF fault
        THEN messages' = messages /\ Throw(t, op[t], loc[t], tr, ProviderError("storeMessage"))
        ELSE /\ messages' = ProviderAppend(messages, msg, id)
             /\ SetTurn(t, "done", loc[t], Append(tr, done), Returned(<<>>))
  /\ UNCHANGED <<op, convs, contexts, creates, now, ncalls, componentVars>>

\* Mutant: the triples come out newest first.
RECURSIVE HistoryRows_Reversed(_)
HistoryRows_Reversed(msgs) == IF msgs = <<>> THEN <<>> ELSE HistoryRows_Reversed(SubSeq(msgs, 2, Len(msgs))) \o <<[role |-> msgs[1].role, content |-> msgs[1].content, timestamp |-> msgs[1].timestamp]>>

\* messages.map(msg => ({role, content, timestamp})), l.316-320.
RECURSIVE HistoryRows(_)
HistoryRows(msgs) == IF msgs = <<>> THEN <<>> ELSE <<[role |-> msgs[1].role, content |-> msgs[1].content, timestamp |-> msgs[1].timestamp]>> \o HistoryRows(SubSeq(msgs, 2, Len(msgs)))

\* Mutant: the history read creates the conversation when it does not exist.
Call_getRecentConversationHistory_Creating(t, user, platform, limit, fault) ==
  /\ Begin(t, [NoOp EXCEPT !.name = "getRecentConversationHistory", !.user = user, !.platform = platform, !.limit = limit])
  /\ LET id == generateConversationId(user, platform)
         l == [NoLoc EXCEPT !.conversationId = id]
         tr == <<Event("memory.service.get_messages.called"), Call("getMessages", id, <<>>, ~fault)>>
     IN /\ convs' = ProviderCreate(id)
        /\ IF fault
           THEN SetTurn(t, "done", l, Append(tr, Event("memory.conversation.history.failed")), Returned(<<>>))
           ELSE SetTurn(t, "done", l, tr, Returned(HistoryRows(ProviderGetMessages(id, limit))))
  /\ UNCHANGED <<messages, contexts, creates, now, componentVars>>

\* getRecentConversationHistory(user, platform, limit), l.304-334.
Call_getRecentConversationHistory(t, user, platform, limit, fault) ==
  /\ Begin(t, [NoOp EXCEPT !.name = "getRecentConversationHistory", !.user = user, !.platform = platform, !.limit = limit])
  /\ LET id == generateConversationId(user, platform)
         l == [NoLoc EXCEPT !.conversationId = id]
         tr == <<Event("memory.service.get_messages.called"), Call("getMessages", id, <<>>, ~fault)>>
     IN IF fault
        THEN SetTurn(t, "done", l, Append(tr, Event("memory.conversation.history.failed")), Returned(<<>>))
        ELSE SetTurn(t, "done", l, tr, Returned(HistoryRows(ProviderGetMessages(id, limit))))
  /\ UNCHANGED <<storeVars, creates, now, componentVars>>

\* deleteConversation(conversationId), l.279-281.
Call_deleteConversation(t, id, fault) ==
  /\ Begin(t, [NoOp EXCEPT !.name = "deleteConversation"])
  /\ LET l == [NoLoc EXCEPT !.conversationId = id]
         tr == <<Call("deleteConversation", id, <<>>, ~fault)>>
     IN IF fault
        THEN UNCHANGED storeVars /\ SetTurn(t, "done", l, tr, Raised(ProviderError("deleteConversation")))
        ELSE /\ convs' = convs \ {id}
             /\ messages' = WithoutConversation(messages, id)
             /\ contexts' = WithoutConversation(contexts, id)
             /\ SetTurn(t, "done", l, tr, Returned(<<>>))
  /\ UNCHANGED <<creates, now, componentVars>>

\* The caller of the method on turn t takes what it returned or raised.
Settle(t) ==
  /\ pc[t] = "done"
  /\ op' = [op EXCEPT ![t] = NoOp]
  /\ SetTurn(t, "idle", NoLoc, <<>>, Pending)
  /\ UNCHANGED <<storeVars, creates, now, ncalls, componentVars>>

\* ---------------------------------------------------------- specifications
\* limit = 100, the default of getRecentConversationHistory.
DefaultLimit == 100
Texts == {"hi"}

\* The memory operations of the normal flow, on turn t, with provider faults in F.
Flow(t, F) ==
  \/ CanBegin(t) /\ \E u \in Users, p \in Platforms, f \in F : Call_getOrCreateConversation(t, u, p, f)
  \/ CanBegin(t) /\ \E u \in Users, p \in Platforms, m \in Texts, ts \in Times, mid \in MessageIdArgs, f \in F : Call_storeUserInteraction(t, u, p, m, ts, mid, f)
  \/ CanBegin(t) /\ \E u \in Users, p \in Platforms, m \in Texts, c \in Chains, f \in F : Call_storeAssistantInteraction(t, u, p, m, c, f)
  \/ CanBegin(t) /\ \E u \in Users, p \in Platforms, f \in F : Call_getRecentConversationHistory(t, u, p, DefaultLimit, f)
  \/ \E f \in F : Return_createConversation(t, f)
  \/ \E f \in F : Return_storeContext(t, f)
  \/ \E f \in F : Return_storeMessage(t, f)
  \/ Settle(t)

\* Concurrent turns, an unreliable provider, and the administrative deleteConversation.
Next == \E t \in Turns : Flow(t, BOOLEAN) \/ (CanBegin(t) /\ \E c \in ConvIds, f \in BOOLEAN : Call_deleteConversation(t, c, f))
Spec == Init /\ [][Next]_vars

\* Concurrent turns and an unreliable provider; deleteConversation is never called.
NextNoDelete == \E t \in Turns : Flow(t, BOOLEAN)
SpecNoDelete == Init /\ [][NextNoDelete]_vars

\* Concurrent turns over a provider that fails only when getConversation does
\* not find the conversation; deleteConversation is never called.
NextReliable == \E t \in Turns : Flow(t, {FALSE})
SpecReliable == Init /\ [][NextReliable]_vars

\* Non-concurrent access: one caller, one call at a time, and a provider whose
\* calls fail only when getConversation does not find the conversation.
NextSequential == Flow("t1", {FALSE})
SpecSequential == Init /\ [][NextSequential]_vars

\* History reads over a store that already holds messages.  The stored
\* messages are those successful storeUserInteraction calls leave behind, in any
\* order of arrival; each sits in the conversation of its (user, platform) pair.
Limits == {1, DefaultLimit}
StoredUserMessages == {[conv |-> generateConversationId(u, p), rec |-> userMessage(finalMessageId(mid, p, ts), m, ts)] : u \in Users, p \in Platforms, m \in Texts, ts \in Times, mid \in MessageIdArgs}
StoredHistories == UNION {[1..n -> StoredUserMessages] : n \in 0..MaxStored}

InitHistory ==
  /\ pc = [t \in Turns |-> "idle"]
  /\ op = [t \in Turns |-> NoOp]
  /\ loc = [t \in Turns |-> NoLoc]
  /\ trace = [t \in Turns |-> <<>>]
  /\ result = [t \in Turns |-> Pending]
  /\ messages \in StoredHistories
  /\ convs = {messages[i].conv : i \in 1..Len(messages)}
  /\ contexts = <<>>
  /\ creates = [c \in ConvIds |-> IF c \in convs THEN 1 ELSE 0]
  /\ now = 1
  /\ ncalls = 0
  /\ modelCapabilities = <<>>
  /\ modelHasInit = FALSE
  /\ decorator = None
  /\ plugins = <<>>

NextHistory == \E t \in Turns : (CanBegin(t) /\ \E u \in Users, p \in Platforms, n \in Limits, f \in BOOLEAN : Call_getRecentConversationHistory(t, u, p, n, f)) \/ Settle(t)
SpecHistory == InitHistory /\ [][NextHistory]_vars

\* ------------------------------------------------ ids with the separator
\* Users and platforms whose strings may contain the "-" of the conversation id.
SeparatorUsers == {"u", "a-u"}
SeparatorPlatforms == {"web", "web-a"}
SeparatorConvIds == {generateConversationId(u, p) : u \in SeparatorUsers, p \in SeparatorPlatforms}
\* The text of a message names the pair that stored it.
OwnerText(user, platform) == user \o "@" \o platform

InitSeparator ==
  /\ pc = [t \in Turns |-> "idle"]
  /\ op = [t \in Turns |-> NoOp]
  /\ loc = [t \in Turns |-> NoLoc]
  /\ trace = [t \in Turns |-> <<>>]
  /\ result = [t \in Turns |-> Pending]
  /\ convs = {}
  /\ messages = <<>>
  /\ contexts = <<>>
  /\ creates = [c \in SeparatorConvIds |-> 0]
  /\ now = 1
  /\ ncalls = 0
  /\ modelCapabilities = <<>>
  /\ modelHasInit = FALSE
  /\ decorator = None
  /\ plugins = <<>>

\* storeUserInteraction and getRecentConversationHistory for such pairs, over a
\* provider that fails only when getConversation does not find the conversation.
NextSeparator ==
  \E t \in Turns :
    \/ CanBegin(t) /\ \E u \in SeparatorUsers, p \in SeparatorPlatforms, ts \in Times : Call_storeUserInteraction(t, u, p, OwnerText(u, p), ts, None, FALSE)
    \/ CanBegin(t) /\ \E u \in SeparatorUsers, p \in SeparatorPlatforms : Call_getRecentConversationHistory(t, u, p, DefaultLimit, FALSE)
    \/ Return_createConversation(t, FALSE)
    \/ Return_storeMessage(t, FALSE)
    \/ Settle(t)
SpecSeparator == InitSeparator /\ [][NextSeparator]_vars

\* ------------------------------------------- delegating operations, l.215-281
\* The records callers hand to storeMessage and storeContext directly.
DirectMessages == {userMessage("m1", "hi", 1)}
DirectContexts == {contextRecord("c1", <<>>, 1)}

\* A delegating method called by itself: it publishes `events`, calls the
\* provider method once with `arg`, and returns the provider's promise, which
\* resolves with `value` or rejects (fault).
Delegate(t, o, id, events, arg, fault, value) ==
  /\ Begin(t, o)
  /\ SetTurn(t, "done", [NoLoc EXCEPT !.conversationId = id], events \o <<Call(o.name, id, arg, ~fault)>>, IF fault THEN Raised(ProviderError(o.name)) ELSE Returned(value))
  /\ UNCHANGED <<now, componentVars>>

\* storeMessage(message, conversationId), l.215-223.
Call_storeMessage(t, message, id, fault) ==
  /\ Delegate(t, [NoOp EXCEPT !.name = "storeMessage", !.record = Some(message)], id, <<Event("memory.service.store_message.called")>>, <<message>>, fault, <<>>)
  /\ messages' = IF fault THEN messages ELSE ProviderAppend(messages, message, id)
  /\ UNCHANGED <<convs, contexts, creates>>

\* storeContext(context, conversationId), l.225-233.
Call_storeContext(t, context, id, fault) ==
  /\ Delegate(t, [NoOp EXCEPT !.name = "storeContext", !.record = Some(context)], id, <<Event("memory.service.store_context.called")>>, <<context>>, fault, <<>>)
  /\ contexts' = IF fault THEN contexts ELSE ProviderAppend(contexts, context, id)
  /\ UNCHANGED <<convs, messages, creates>>

\* getMessages({conversationId, limit}), l.235-243.
Call_getMessages(t, id, limit, fault) ==
  /\ Delegate(t, [NoOp EXCEPT !.name = "getMessages", !.limit = limit], id, <<Event("memory.service.get_messages.called")>>, <<limit>>, fault, ProviderGetMessages(id, limit))
  /\ UNCHANGED <<storeVars, creates>>

\* getContexts(conversationId), l.245-253.
Call_getContexts(t, id, fault) ==
  /\ Delegate(t, [NoOp EXCEPT !.name = "getContexts"], id, <<Event("memory.service.get_contexts.called")>>, <<>>, fault, getContexts(id))
  /\ UNCHANGED <<storeVars, creates>>

\* getConversation(conversationId), l.255-263: the provider rejects when the
\* conversation is absent, or for another reason (fault).
Call_getConversation(t, id, fault) ==
  /\ Delegate(t, [NoOp EXCEPT !.name = "getConversation"], id, <<Event("memory.service.get_conversation.called")>>, <<>>, ~ConversationFound(id, fault), <<[id |-> id]>>)
  /\ UNCHANGED <<storeVars, creates>>

\* createConversation({id}), l.265-277.
Call_createConversation(t, id, fault) ==
  /\ Delegate(t, [NoOp EXCEPT !.name = "createConversation"], id, <<Event("memory.service.create_conversation.called")>>, <<>>, fault, <<id>>)
  /\ convs' = IF fault THEN convs ELSE ProviderCreate(id)
  /\ creates' = [creates EXCEPT ![id] = @ + 1]
  /\ UNCHANGED <<messages, contexts>>

\* The delegating operations called directly, over an unreliable provider.
NextDelegates ==
  \E t \in Turns :
    \/ CanBegin(t) /\ \E m \in DirectMessages, c \in ConvIds, f \in BOOLEAN : Call_storeMessage(t, m, c, f)
    \/ CanBegin(t) /\ \E x \in DirectContexts, c \in ConvIds, f \in BOOLEAN : Call_storeContext(t, x, c, f)
    \/ CanBegin(t) /\ \E c \in ConvIds, n \in Limits, f \in BOOLEAN : Call_getMessages(t, c, n, f)
    \/ CanBegin(t) /\ \E c \in ConvIds, f \in BOOLEAN : Call_getContexts(t, c, f)
    \/ CanBegin(t) /\ \E c \in ConvIds, f \in BOOLEAN : Call_getConversation(t, c, f)
    \/ CanBegin(t) /\ \E c \in ConvIds, f \in BOOLEAN : Call_createConversation(t, c, f)
    \/ CanBegin(t) /\ \E c \in ConvIds, f \in BOOLEAN : Call_deleteConversation(t, c, f)
    \/ Settle(t)
SpecDelegates == Init /\ [][NextDelegates]_vars

\* ------------------------------------------------ capability layer, Chat.tsx
\* model.id; the decorator is constructed with super(model.id, ...).
ModelId == "openai"
CapabilityIds == {"text", "image"}
\* The execution functions capabilities are built from.
ExecuteFns == {"f", "g"}
Inputs == {"in"}
\* config?: ModelRequestConfig
Configs == {None, Some("cfg")}
\* The two provider objects a caller can hold.
Targets == {"model", "decorator"}

\* A ModelCapability of the underlying model: its id and its execute function.
ModelCapability(id, execute) == [id |-> id, execute |-> execute, inner |-> None]
Capabilities == {ModelCapability(i, f) : i \in CapabilityIds, f \in ExecuteFns}

\* The decorated version of a capability, l.806-864: same id, an execute that
\* logs around the execute of the capability captured by the closure.
decoratedCapability(capability) == [id |-> capability.id, execute |-> "logging", inner |-> Some(capability)]

\* Mutant: Map.set drops every other entry.
MapSet_OnlyKey(map, key, value) == [k \in {key} |-> value]

\* Map.prototype.set(key, value): inserts, or replaces the entry of key.
MapSet(map, key, value) == [k \in DOMAIN map \cup {key} |-> IF k = key THEN value ELSE map[k]]

\* Mutant: the decorator reads the model's live table instead of its own copy.
CapabilitiesOf_Live(target) == modelCapabilities

\* this.capabilities of the provider object `target`.
CapabilitiesOf(target) == IF target = "model" THEN modelCapabilities ELSE decorator[1]
\* The provider object exists: the decorator only once it has been constructed.
Exists(target) == target = "model" \/ decorator # None

hasCapability(target, capabilityId) == capabilityId \in DOMAIN CapabilitiesOf(target)
getCapability(target, capabilityId) == IF hasCapability(target, capabilityId) THEN Some(CapabilitiesOf(target)[capabilityId]) ELSE None
getCapabilities(target) == {CapabilitiesOf(target)[k] : k \in DOMAIN CapabilitiesOf(target)}

\* MonitorService.publishEvent({type, metadata: {model, capability, ...}})
CapabilityEvent(type, capabilityId) == [kind |-> "event", name |-> type, conv |-> capabilityId, arg |-> <<ModelId>>, ok |-> TRUE]
\* A function of the underlying model is entered with these arguments.
Invoked(fn, input, config) == [kind |-> "invoke", name |-> fn, conv |-> "", arg |-> <<input, config>>, ok |-> TRUE]
\* That function's promise settles: resolved with value[1], or rejected with it.
Settled(fn, ok, value) == [kind |-> "settle", name |-> fn, conv |-> "", arg |-> value, ok |-> ok]

\* What execution function fn answers to input, and the error it fails with.
Response(fn, input) == fn \o "(" \o input \o ")"
ExecuteError(fn) == fn \o " failed"
\* Mutant: the diagnostic leaves out the provider id.
NotFoundMessage_NoModel(capabilityId, modelId) == "Capability " \o capabilityId \o " not found"

\* `Capability ${capabilityId} not found on model ${this.id}`
NotFoundMessage(capabilityId, modelId) == "Capability " \o capabilityId \o " not found on model " \o modelId

\* No finished call is waiting for its caller: synchronous code may run.
NoneSettling == \A x \in Turns : pc[x] # "done"

\* A call of a capability-layer or registry method starts on turn t.
Enter(t, o) ==
  /\ Running(t, "idle")
  /\ op' = [op EXCEPT ![t] = o]

\* Mutant: the decorator shares the live table of the model it decorates.
addCapability_Aliased(target, capability) ==
  /\ NoneSettling /\ Exists(target)
  /\ modelCapabilities' = MapSet(modelCapabilities, capability.id, capability)
  /\ decorator' = IF decorator = None THEN None ELSE Some(MapSet(decorator[1], capability.id, capability))
  /\ UNCHANGED <<turnVars, memoryVars, modelHasInit, plugins>>

\* ModelProviderBase.addCapability, l.752-754, on the model or on the decorator
\* (which inherits it): this.capabilities.set(capability.id, capability).
addCapability(target, capability) ==
  /\ NoneSettling /\ Exists(target)
  /\ IF target = "model"
     THEN modelCapabilities' = MapSet(modelCapabilities, capability.id, capability) /\ decorator' = decorator
     ELSE decorator' = Some(MapSet(decorator[1], capability.id, capability)) /\ modelCapabilities' = modelCapabilities
  /\ UNCHANGED <<turnVars, memoryVars, modelHasInit, plugins>>

\* new LoggingModelDecorator(model), l.799-868: every capability the model has
\* now is decorated and added to the decorator's own Map.
NewLoggingModelDecorator ==
  /\ NoneSettling /\ decorator = None
  /\ decorator' = Some([k \in DOMAIN modelCapabilities |-> decoratedCapability(modelCapabilities[k])])
  /\ UNCHANGED <<turnVars, memoryVars, modelCapabilities, modelHasInit, plugins>>

\* The capability whose execute function the model runs for `capability`.
Underlying(capability) == IF capability.inner = None THEN capability ELSE capability.inner[1]

\* executeCapability(capabilityId, input, config), l.772-786, up to the first
\* await inside capability.execute: for a decorated capability the prompt event
\* is published and the captured capability's execute is entered, l.812-828.
Call_executeCapability(t, target, capabilityId, input, config) ==
  /\ Exists(target)
  /\ Enter(t, [NoOp EXCEPT !.name = "executeCapability", !.target = target, !.capabilityId = capabilityId, !.input = input, !.config = config])
  /\ IF ~hasCapability(target, capabilityId)
     THEN SetTurn(t, "done", NoLoc, <<>>, Raised(NotFoundMessage(capabilityId, ModelId)))
     ELSE LET capability == CapabilitiesOf(target)[capabilityId]
              prompt == IF capability.inner = None THEN <<>> ELSE <<CapabilityEvent("model.capability.prompt", Underlying(capability).id)>>
          IN SetTurn(t, "execute", [NoLoc EXCEPT !.capability = Some(capability)], prompt \o <<Invoked(Underlying(capability).execute, input, config)>>, Pending)
  /\ UNCHANGED <<memoryVars, componentVars>>

\* What the promise of execution function fn settles with.
ExecuteResult(fn, input, ok) == IF ok THEN Returned(<<Response(fn, input)>>) ELSE Raised(ExecuteError(fn))

\* Mutant: the decorated execute raises a new error about the inner one.
DecoratedOutcome_Wrapped(r) == IF r.status = "raised" THEN Raised("capability failed: " \o r.error) ELSE r

\* The decorated execute ends with `return response` (l.846) or `throw error` (l.861).
DecoratedOutcome(r) == r

\* The event the decorated execute publishes once the inner execute has settled, l.831-860.
TerminalEvent(capability, ok) == CapabilityEvent(IF ok THEN "model.capability.response" ELSE "model.capability.error", Underlying(capability).id)

\* The execute function entered by the call on turn t settles, resolved (ok) or rejected.
Return_execute(t, ok) ==
  /\ Running(t, "execute")
  /\ LET capability == loc[t].capability[1]
         fn == Underlying(capability).execute
         r == ExecuteResult(fn, op[t].input, ok)
         tr == Append(trace[t], Settled(fn, ok, IF ok THEN r.value ELSE <<r.error>>))
     IN IF capability.inner = None
        THEN SetTurn(t, "done", loc[t], tr, r)
        ELSE SetTurn(t, "done", loc[t], Append(tr, TerminalEvent(capability, ok)), DecoratedOutcome(r))
  /\ UNCHANGED <<op, memoryVars, componentVars>>

HealthError == "model unhealthy"
InitError == "model init failed"

\* LoggingModelDecorator.checkHealth, l.873-875: return this.model.checkHealth().
Call_checkHealth(t, ok) ==
  /\ decorator # None
  /\ Enter(t, [NoOp EXCEPT !.name = "checkHealth", !.target = "decorator"])
  /\ SetTurn(t, "done", NoLoc, <<Invoked("checkHealth", "", None), Settled("checkHealth", ok, IF ok THEN <<>> ELSE <<HealthError>>)>>, IF ok THEN Returned(<<>>) ELSE Raised(HealthError))
  /\ UNCHANGED <<memoryVars, componentVars>>

\* Mutant: init calls this.model.init without asking whether it is there.
Call_init_Unconditional(t, ok) ==
  /\ decorator # None
  /\ Enter(t, [NoOp EXCEPT !.name = "init", !.target = "decorator"])
  /\ SetTurn(t, "done", NoLoc, <<Invoked("init", "", None), Settled("init", ok, IF ok THEN <<>> ELSE <<InitError>>)>>, IF ok THEN Returned(<<>>) ELSE Raised(InitError))
  /\ UNCHANGED <<memoryVars, componentVars>>

\* LoggingModelDecorator.init, l.880-884: if (this.model.init) return this.model.init().
Call_init(t, ok) ==
  /\ decorator # None
  /\ Enter(t, [NoOp EXCEPT !.name = "init", !.target = "decorator"])
  /\ IF modelHasInit
     THEN SetTurn(t, "done", NoLoc, <<Invoked("init", "", None), Settled("init", ok, IF ok THEN <<>> ELSE <<InitError>>)>>, IF ok THEN Returned(<<>>) ELSE Raised(InitError))
     ELSE SetTurn(t, "done", NoLoc, <<>>, Returned(<<>>))
  /\ UNCHANGED <<memoryVars, componentVars>>

\* A model provider, possibly with init(), with no capability yet and no decorator.
InitProvider ==
  /\ pc = [t \in Turns |-> "idle"]
  /\ op = [t \in Turns |-> NoOp]
  /\ loc = [t \in Turns |-> NoLoc]
  /\ trace = [t \in Turns |-> <<>>]
  /\ result = [t \in Turns |-> Pending]
  /\ convs = {}
  /\ messages = <<>>
  /\ contexts = <<>>
  /\ creates = [c \in ConvIds |-> 0]
  /\ now = 1
  /\ ncalls = 0
  /\ modelCapabilities = <<>>
  /\ modelHasInit \in BOOLEAN
  /\ decorator = None
  /\ plugins = <<>>

\* The capability layer: capabilities are added to the model and to the
\* decorator at any time, the decorator is constructed once, and the turns
\* execute capabilities on either provider and call the decorator's
\* checkHealth and init.
NextProvider ==
  \/ \E target \in Targets, c \in Capabilities : addCapability(target, c)
  \/ NewLoggingModelDecorator
  \/ \E t \in Turns :
       \/ \E target \in Targets, i \in CapabilityIds, in \in Inputs, cfg \in Configs : Call_executeCapability(t, target, i, in, cfg)
       \/ \E ok \in BOOLEAN : Return_execute(t, ok)
       \/ \E ok \in BOOLEAN : Call_checkHealth(t, ok)
       \/ \E ok \in BOOLEAN : Call_init(t, ok)
       \/ Settle(t)
SpecProvider == InitProvider /\ [][NextProvider]_vars

\* ------------------------------------------------ PluginRegistry, Chat.tsx
\* A JavaScript value as far as validatePluginId tells values apart.
JsString(s) == [type |-> "string", value |-> s]
JsNumber(n) == [type |-> "number", value |-> n]
JsUndefined == [type |-> "undefined", value |-> ""]
\* !v
JsFalsy(v) == v.type = "undefined" \/ (v.type = "string" /\ v.value = "") \/ (v.type = "number" /\ v.value = "0")
\* s.startsWith(prefix)
startsWith(s, prefix) == Len(s) >= Len(prefix) /\ SubSeq(s, 1, Len(prefix)) = prefix

PluginIds == {JsString("plugin-a"), JsString("plugin-b"), JsString("weather"), JsString(""), JsNumber("7"), JsUndefined}
PluginNames == {"p", "q"}
\* Two plugins with one id are different objects when their names differ.
Plugins == {[id |-> i, name |-> n] : i \in PluginIds, n \in PluginNames}
\* The argument of register: null/undefined, or a plugin.
PluginArgs == {None} \cup {Some(p) : p \in Plugins}
\* The argument of getPlugin.
LookupIds == {"plugin-a", "plugin-b"}

RegistrationFailed == "Cannot register null or undefined plugin"
\* Mutant: the prefix of the id is not looked at.
validatePluginId_AnyString(id) ==
  IF JsFalsy(id) THEN Some("Plugin ID cannot be empty")
  ELSE IF id.type # "string" THEN Some("Plugin ID must be a string")
  ELSE None

\* validatePluginId(id), l.900-936: the error it throws, or None.
validatePluginId(id) ==
  IF JsFalsy(id) THEN Some("Plugin ID cannot be empty")
  ELSE IF id.type # "string" THEN Some("Plugin ID must be a string")
  ELSE IF ~startsWith(id.value, "plugin-") THEN Some("Plugin ID must start with \"plugin-\"")
  ELSE None

\* this.plugins.has(id), this.plugins.get(id), Array.from(this.plugins.keys())
PluginsHas(id) == \E i \in 1..Len(plugins) : plugins[i].id = JsString(id)
PluginsGet(id) == IF PluginsHas(id) THEN Some(plugins[CHOOSE i \in 1..Len(plugins) : plugins[i].id = JsString(id)]) ELSE None
RECURSIVE PluginKeys(_)
PluginKeys(ps) == IF ps = <<>> THEN <<>> ELSE <<ps[1].id.value>> \o PluginKeys(SubSeq(ps, 2, Len(ps)))
\* existing.join(", ")
RECURSIVE Join(_)
Join(keys) == IF keys = <<>> THEN "" ELSE IF Len(keys) = 1 THEN keys[1] ELSE keys[1] \o ", " \o Join(SubSeq(keys, 2, Len(keys)))
CollisionMessage(id, existing) == "Plugin ID collision: " \o id \o " is already registered.\nCurrently registered plugins: " \o Join(existing)

\* Mutant: on a collision the new plugin takes the place of the registered one.
OnCollision_Overwrite(t, plugin) ==
  /\ plugins' = [i \in 1..Len(plugins) |-> IF plugins[i].id = plugin.id THEN plugin ELSE plugins[i]]
  /\ SetTurn(t, "done", NoLoc, <<>>, Returned(<<>>))

\* register finds plugin.id already registered, l.956-971: the collision is
\* published and thrown, the Map is not touched.
OnCollision(t, plugin) ==
  /\ plugins' = plugins
  /\ SetTurn(t, "done", NoLoc, <<Event("registry.plugin.id.collision")>>, Raised(CollisionMessage(plugin.id.value, PluginKeys(plugins))))

\* register(plugin), l.941-974.
Call_register(t, plugin) ==
  /\ Enter(t, [NoOp EXCEPT !.name = "register", !.plugin = plugin])
  /\ IF plugin = None
     THEN plugins' = plugins /\ SetTurn(t, "done", NoLoc, <<Event("registry.plugin.registration.failed")>>, Raised(RegistrationFailed))
     ELSE IF validatePluginId(plugin[1].id) # None
     THEN plugins' = plugins /\ SetTurn(t, "done", NoLoc, <<Event("registry.plugin.validation.failed")>>, Raised(validatePluginId(plugin[1].id)[1]))
     ELSE IF PluginsHas(plugin[1].id.value)
     THEN OnCollision(t, plugin[1])
     ELSE plugins' = Append(plugins, plugin[1]) /\ SetTurn(t, "done", NoLoc, <<>>, Returned(<<>>))
  /\ UNCHANGED <<memoryVars, modelCapabilities, modelHasInit, decorator>>

\* getPlugin(id), l.979-993.
Call_getPlugin(t, id) ==
  /\ Enter(t, [NoOp EXCEPT !.name = "getPlugin", !.pluginId = Some(id)])
  /\ SetTurn(t, "done", NoLoc, IF PluginsHas(id) THEN <<>> ELSE <<Event("registry.plugin.not_found")>>, Returned(PluginsGet(id)))
  /\ UNCHANGED <<memoryVars, componentVars>>

\* The plugin registry on its own: plugins are registered and looked up.
NextRegistry == \E t \in Turns : (\E p \in PluginArgs : Call_register(t, p)) \/ (\E id \in LookupIds : Call_getPlugin(t, id)) \/ Settle(t)
SpecRegistry == Init /\ [][NextRegistry]_vars

\* ------------------------------------------------------------------ claims
IsCall(e, method) == e.kind = "call" /\ e.name = method
IsAssistant(t) == op[t].name = "storeAssistantInteraction"
IsUser(t) == op[t].name = "storeUserInteraction"
CallIndexes(tr, method) == {i \in 1..Len(tr) : IsCall(tr[i], method)}
\* The writes a call made, in order.
RECURSIVE Writes(_)
Writes(tr) == IF tr = <<>> THEN <<>> ELSE (IF tr[1].kind = "call" /\ tr[1].name \in {"storeContext", "storeMessage"} THEN <<tr[1]>> ELSE <<>>) \o Writes(SubSeq(tr, 2, Len(tr)))
\* The chain has no usable first id: empty, or a first element without id or with an empty one.
IdLess(chain) == chain = <<>> \/ chain[1].id = None \/ chain[1].id = Some("")

\* C1: within one storeAssistantInteraction, also when other turns interleave,
\* storeMessage is issued (awaited or settled) only after a storeContext call of
\* the same call has resolved for the context whose id is the message's
\* contextId; once storeContext has rejected, storeMessage is never issued.
C1_ContextBeforeMessage ==
  \A t \in Turns : IsAssistant(t) =>
    LET tr == trace[t]
        ctxOk == {j \in CallIndexes(tr, "storeContext") : tr[j].ok}
        ctxFailed == {j \in CallIndexes(tr, "storeContext") : ~tr[j].ok}
        msgs == CallIndexes(tr, "storeMessage")
    IN /\ pc[t] = "storeMessage" => \E j \in ctxOk : tr[j].arg[1].id = MessageToStore(t).contextId[1]
       /\ \A i \in msgs : \E j \in ctxOk : j < i /\ tr[j].conv = tr[i].conv /\ Some(tr[j].arg[1].id) = tr[i].arg[1].contextId
       /\ ctxFailed # {} => pc[t] # "storeMessage" /\ msgs = {}

C1_Witness == \E t \in Turns : IsAssistant(t) /\ CallIndexes(trace[t], "storeMessage") # {} /\ \E x \in Turns \ {t} : pc[x] \notin {"idle", "done"}

\* C2: without deleteConversation, every stored assistant message carries a
\* contextId that is the id of a context stored in the same conversation, and
\* when storeAssistantInteraction has returned, getContexts(conversationId)
\* holds a context whose id is the contextId of the message it stored.
C2_ContextIdResolves ==
  /\ \A i \in 1..Len(messages) : messages[i].rec.role = "assistant" =>
       /\ messages[i].rec.contextId # None
       /\ \E j \in 1..Len(contexts) : contexts[j].conv = messages[i].conv /\ contexts[j].rec.id = messages[i].rec.contextId[1]
  /\ \A t \in Turns : IsAssistant(t) /\ pc[t] = "done" /\ result[t].status = "returned" =>
       \A i \in CallIndexes(trace[t], "storeMessage") :
         \E k \in 1..Len(getContexts(loc[t].conversationId)) : Some(getContexts(loc[t].conversationId)[k].id) = trace[t][i].arg[1].contextId

C2_Witness == \E t \in Turns : IsAssistant(t) /\ pc[t] = "done" /\ result[t].status = "returned" /\ \E i \in 1..Len(messages) : messages[i].rec.role = "assistant" /\ messages[i].conv = loc[t].conversationId

\* C3: storeAssistantInteraction with an empty chain, or one whose first element
\* has no id or an empty id, never issues storeContext or storeMessage, and when
\* it ends it has raised an error.
C3_IdLessChainRaises ==
  \A t \in Turns : IsAssistant(t) /\ IdLess(op[t].chain) =>
    /\ pc[t] \notin {"storeContext", "storeMessage"}
    /\ Writes(trace[t]) = <<>>
    /\ pc[t] = "done" => result[t].status = "raised"

C3_Witness == \E t \in Turns : IsAssistant(t) /\ op[t].chain # <<>> /\ op[t].chain[1].id = Some("") /\ pc[t] = "done" /\ result[t] = Raised(MissingUserMessageId)

\* C4 (as claimed): a storeAssistantInteraction that fails because the chain is
\* empty or id-less has changed nothing in the provider: the only provider call
\* it made is the read getConversation, so no conversation was created either.
C4_FailedCallWritesNothing ==
  \A t \in Turns : IsAssistant(t) /\ pc[t] = "done" /\ result[t] = Raised(MissingUserMessageId) =>
    \A i \in 1..Len(trace[t]) : trace[t][i].kind = "call" => trace[t][i].name = "getConversation"

\* C5: a storeAssistantInteraction(user, platform, text, chain) that returns,
\* with Date.now() = T, has written exactly one context and then one message
\* into conversation platform-user: the context platform-user-context-T of type
\* context_chain whose content is the serialized chain, and the assistant message
\* platform-user-assistant-T with content text, the context's id as contextId
\* and the first chain element's id as user_message_id, both with timestamp T.
C5_AssistantWrites ==
  \A t \in Turns : IsAssistant(t) /\ pc[t] = "done" /\ result[t].status = "returned" =>
    LET o == op[t]
        T == loc[t].timestamp
        conv == o.platform \o "-" \o o.user
        w == Writes(trace[t])
    IN /\ T \in 1..now
       /\ Len(w) = 2
       /\ w[1] = Call("storeContext", conv, <<[id |-> conv \o "-context-" \o ToString(T), type |-> "context_chain", content |-> JSONstringify(o.chain), timestamp |-> T]>>, TRUE)
       /\ w[2] = Call("storeMessage", conv, <<[id |-> conv \o "-assistant-" \o ToString(T), role |-> "assistant", content |-> o.text, timestamp |-> T, contextId |-> Some(w[1].arg[1].id), user_message_id |-> o.chain[1].id]>>, TRUE)
       /\ messages # <<>> /\ messages[Len(messages)] = [conv |-> conv, rec |-> w[2].arg[1]]

C5_Witness ==
  \E t \in Turns : /\ IsAssistant(t) /\ pc[t] = "done" /\ result[t].status = "returned"
                   /\ op[t].user = "u" /\ loc[t].timestamp = 2 /\ ChainSteps = 1
                   /\ \E i \in 1..Len(contexts) : contexts[i] = [conv |-> "web-u", rec |-> [id |-> "web-u-context-2", type |-> "context_chain", content |-> "[{\"id\":\"m1\",\"type\":\"user\"},{\"id\":\"s1\",\"type\":\"step\"}]", timestamp |-> 2]]
                   /\ messages[Len(messages)].rec.id = "web-u-assistant-2"

\* C6 (as claimed): every stored assistant message has a user_message_id that is
\* the id of a user message stored in the same conversation.
C6_UserMessageStored ==
  \A i \in 1..Len(messages) : messages[i].rec.role = "assistant" =>
    \E j \in 1..Len(messages) : /\ messages[j].conv = messages[i].conv
                                /\ messages[j].rec.role = "user"
                                /\ Some(messages[j].rec.id) = messages[i].rec.user_message_id

\* C6 (amended): every assistant message storeAssistantInteraction writes has a
\* non-empty user_message_id, the id of the first element of the chain the call
\* was given; the service does not look the id up in storage.
C6_UserMessageIdFromChain ==
  /\ \A i \in 1..Len(messages) : messages[i].rec.role = "assistant" => Truthy(messages[i].rec.user_message_id)
  /\ \A t \in Turns : IsAssistant(t) =>
       /\ pc[t] = "storeMessage" => MessageToStore(t).user_message_id = op[t].chain[1].id
       /\ \A i \in CallIndexes(trace[t], "storeMessage") : trace[t][i].arg[1].user_message_id = op[t].chain[1].id /\ op[t].chain[1].id \notin {None, Some("")}

C6_Witness == \E i \in 1..Len(messages) : messages[i].rec.role = "assistant" /\ messages[i].rec.user_message_id = Some("m1") /\ \A j \in 1..Len(messages) : messages[j].rec.role # "user"

\* C7: under non-concurrent access, with a provider that fails only when
\* getConversation does not find the conversation, at most one createConversation
\* request is made per conversation id over any number of calls, and every
\* getOrCreateConversation(u, p) returns the same id, p-u.
C7_AtMostOneCreate ==
  /\ \A c \in ConvIds : creates[c] <= 1
  /\ \A t \in Turns : op[t].name = "getOrCreateConversation" /\ pc[t] = "done" =>
       result[t] = Returned(<<op[t].platform \o "-" \o op[t].user>>)

C7_Witness ==
  \E t \in Turns : /\ op[t].name = "getOrCreateConversation" /\ pc[t] = "done" /\ ncalls >= 2
                   /\ creates[loc[t].conversationId] = 1
                   /\ CallIndexes(trace[t], "createConversation") = {}

\* C8: getOrCreateConversation does not look again before it creates: a call
\* that found no conversation issues createConversation when it resumes, whatever
\* other turns did meanwhile; so two concurrent calls for one pair can both
\* issue it (the witness: two create requests for one id, one from each turn).
C8_CreateNotRechecked ==
  [][\A t \in Turns : pc[t] = "createConversation" /\ pc'[t] # "createConversation" =>
       creates'[loc[t].conversationId] = creates[loc[t].conversationId] + 1]_vars

C8_Witness ==
  \E c \in ConvIds : /\ creates[c] = 2
                     /\ \A t \in Turns : \E i, j \in 1..Len(trace[t]) :
                          /\ i < j
                          /\ trace[t][i] = Call("getConversation", c, <<>>, FALSE)
                          /\ trace[t][j] = Call("createConversation", c, <<>>, TRUE)

\* C9: the conversation id is platform-user: every operation that derives it
\* (getOrCreateConversation, storeUserInteraction, storeAssistantInteraction,
\* getRecentConversationHistory) holds that id and passes it to every provider
\* call it makes, in every reachable state of storage.
C9_ConversationIdFormula ==
  /\ generateConversationId("alice", "web") = "web-alice"
  /\ \A t \in Turns : op[t].name \in {"getOrCreateConversation", "storeUserInteraction", "storeAssistantInteraction", "getRecentConversationHistory"} =>
       LET id == op[t].platform \o "-" \o op[t].user
       IN /\ loc[t].conversationId = id
          /\ \A i \in 1..Len(trace[t]) : trace[t][i].kind = "call" => trace[t][i].conv = id
          /\ op[t].name = "getOrCreateConversation" /\ result[t].status = "returned" => result[t].value = <<id>>

C9_Witness ==
  \E t, x \in Turns : /\ op[t].name = "getRecentConversationHistory" /\ pc[t] = "done"
                      /\ op[x].name = "storeUserInteraction" /\ pc[x] = "createConversation"
                      /\ op[t].user = "v" /\ op[x].user = "v"
                      /\ loc[t].conversationId = "web-v" /\ loc[x].conversationId = "web-v"
                      /\ convs = {}

\* What a storeUserInteraction that returned must have written, with message id `id`.
UserWriteIs(t, id) ==
  LET o == op[t]
      conv == o.platform \o "-" \o o.user
      msg == [id |-> id, role |-> "user", content |-> o.text, timestamp |-> o.timestamp, contextId |-> None, user_message_id |-> None]
  IN /\ Writes(trace[t]) = <<Call("storeMessage", conv, <<msg>>, TRUE)>>
     /\ messages # <<>> /\ messages[Len(messages)] = [conv |-> conv, rec |-> msg]

\* C10 (as claimed): a storeUserInteraction that returns has written exactly one
\* message, role user, the given content and timestamp, no contextId, no
\* user_message_id, with id messageId whenever one was supplied and
\* platform-timestamp otherwise.
C10_UserWriteAsClaimed ==
  \A t \in Turns : IsUser(t) /\ pc[t] = "done" /\ result[t].status = "returned" =>
    UserWriteIs(t, IF op[t].messageId # None THEN op[t].messageId[1] ELSE op[t].platform \o "-" \o ToString(op[t].timestamp))

\* C10 (amended): as claimed, but the id is messageId only when a non-empty one
\* was supplied; with none or with the empty string it is platform-timestamp.
C10_UserWrite ==
  \A t \in Turns : IsUser(t) /\ pc[t] = "done" /\ result[t].status = "returned" =>
    UserWriteIs(t, IF op[t].messageId \notin {None, Some("")} THEN op[t].messageId[1] ELSE op[t].platform \o "-" \o ToString(op[t].timestamp))

C10_Witness ==
  \E t \in Turns : /\ IsUser(t) /\ pc[t] = "done" /\ result[t].status = "returned"
                   /\ op[t].messageId = Some("") /\ op[t].timestamp = 2
                   /\ messages[Len(messages)].rec.id = "web-2"

\* C11: getRecentConversationHistory never raises.  When getMessages failed it
\* returned the empty sequence; when getMessages succeeded it returned one
\* {role, content, timestamp} triple per message the provider returned (the most
\* recent `limit` messages of the conversation), in the provider's order.
C11_HistoryFailSoft ==
  \A t \in Turns : op[t].name = "getRecentConversationHistory" /\ pc[t] = "done" =>
    LET id == op[t].platform \o "-" \o op[t].user
        got == CallIndexes(trace[t], "getMessages")
        stored == OfConversation(messages, id)
        skip == IF Len(stored) <= op[t].limit THEN 0 ELSE Len(stored) - op[t].limit
        value == result[t].value
    IN /\ result[t].status = "returned"
       /\ Cardinality(got) = 1
       /\ \A g \in got :
            /\ trace[t][g].conv = id
            /\ ~trace[t][g].ok => value = <<>>
            /\ trace[t][g].ok =>
                 /\ Len(value) = Len(stored) - skip
                 /\ \A i \in 1..Len(value) : value[i] = [role |-> stored[skip + i].role, content |-> stored[skip + i].content, timestamp |-> stored[skip + i].timestamp]

C11_Witness ==
  \E t \in Turns : /\ op[t].name = "getRecentConversationHistory" /\ pc[t] = "done"
                   /\ op[t].limit = DefaultLimit
                   /\ Len(result[t].value) = 2
                   /\ result[t].value[1].timestamp = 2 /\ result[t].value[2].timestamp = 1

\* C12 (as claimed): outside getRecentConversationHistory no failure of a
\* persistence call is absorbed.  A getConversation that rejects although the
\* conversation exists (a failure that is not not-found) ends the call at once
\* with that error, and a call that ends after createConversation, storeContext,
\* storeMessage or deleteConversation rejected has raised that call's error.
C12_NoErrorAbsorbed ==
  [][\A t \in Turns :
       /\ \A u \in Users, p \in Platforms :
            Call_getOrCreateConversation(t, u, p, TRUE) /\ ProviderHasConversation(generateConversationId(u, p))
              => pc'[t] = "done" /\ result'[t] = Raised(ProviderError("getConversation"))
       /\ pc'[t] = "done" /\ op'[t].name # "getRecentConversationHistory" =>
            \A i \in 1..Len(trace'[t]) :
              IsCall(trace'[t][i], "createConversation") \/ IsCall(trace'[t][i], "storeContext") \/ IsCall(trace'[t][i], "storeMessage") \/ IsCall(trace'[t][i], "deleteConversation") =>
                (~trace'[t][i].ok => result'[t] = Raised(ProviderError(trace'[t][i].name)))]_vars

FailedEventNames == {"memory.user.interaction.failed", "memory.assistant.interaction.failed"}

\* C13: within one storeUserInteraction or storeAssistantInteraction each of
\* getConversation, createConversation, storeContext and storeMessage is issued
\* at most once; a call that raised published exactly one failure event, its
\* own, as the last thing it did, and raised the error of the step that failed:
\* the error of the provider call that rejected just before, or the missing
\* user message id; a call that did not raise published no failure event.
C13_OneFailureEventNoRetry ==
  \A t \in Turns : IsUser(t) \/ IsAssistant(t) =>
    LET tr == trace[t]
        n == Len(tr)
        failed == {i \in 1..n : tr[i].kind = "event" /\ tr[i].name \in FailedEventNames}
    IN /\ \A m \in {"getConversation", "createConversation", "storeContext", "storeMessage"} : Cardinality(CallIndexes(tr, m)) <= 1
       /\ result[t].status # "raised" => failed = {}
       /\ result[t].status = "raised" =>
            /\ pc[t] = "done"
            /\ n >= 2 /\ failed = {n}
            /\ tr[n].name = (IF IsUser(t) THEN "memory.user.interaction.failed" ELSE "memory.assistant.interaction.failed")
            /\ IF tr[n - 1].kind = "call"
               THEN ~tr[n - 1].ok /\ tr[n - 1].name # "getConversation" /\ result[t].error = ProviderError(tr[n - 1].name)
               ELSE IsAssistant(t) /\ IdLess(op[t].chain) /\ result[t].error = MissingUserMessageId

C13_Witness ==
  \E t \in Turns : /\ IsAssistant(t) /\ pc[t] = "done"
                   /\ result[t] = Raised(ProviderError("storeContext"))
                   /\ \E i \in CallIndexes(trace[t], "createConversation") : trace[t][i].ok

IsExecute(t, target) == op[t].name = "executeCapability" /\ op[t].target = target
\* The places in tr of the capability events of one type, and of the entries of one kind.
EventIndexes(tr, type) == {i \in 1..Len(tr) : tr[i].kind = "event" /\ tr[i].name = type}
KindIndexes(tr, kind) == {i \in 1..Len(tr) : tr[i].kind = kind}
\* The call on turn t returned or raised exactly what the function that settled at tr[s] did.
SameOutcome(t, s) == result[t] = (IF trace[t][s].ok THEN Returned(trace[t][s].arg) ELSE Raised(trace[t][s].arg[1]))

\* C14 (as claimed): every call through the decorator of a capability present in
\* it publishes exactly one prompt event before the one invocation of the
\* underlying execute function and, once that has settled, exactly one terminal
\* event: a response event iff it resolved, an error event iff it rejected.
C14_EveryCallInstrumented ==
  \A t \in Turns : IsExecute(t, "decorator") /\ loc[t].capability # None =>
    LET tr == trace[t]
        prompts == EventIndexes(tr, "model.capability.prompt")
        responses == EventIndexes(tr, "model.capability.response")
        errors == EventIndexes(tr, "model.capability.error")
        invokes == KindIndexes(tr, "invoke")
        settles == KindIndexes(tr, "settle")
    IN /\ Cardinality(prompts) = 1 /\ Cardinality(invokes) = 1
       /\ \A i \in prompts, j \in invokes : i < j
       /\ pc[t] = "execute" => responses \cup errors = {}
       /\ pc[t] = "done" =>
            /\ Cardinality(settles) = 1 /\ Cardinality(responses \cup errors) = 1
            /\ \A j \in settles :
                 /\ \A k \in responses \cup errors : j < k
                 /\ responses # {} <=> tr[j].ok
                 /\ errors # {} <=> ~tr[j].ok

\* C15: for a capability the decorator took over when it was constructed,
\* executeCapability through the decorator enters the execute function of the
\* captured capability exactly once, with the input and config of the call, and
\* ends as that function ended: it returns the response the function resolved
\* with, or raises the error the function rejected with, unchanged.  This is
\* what executeCapability on the model itself does for that capability.
C15_DecoratorTransparent ==
  \A t \in Turns : IsExecute(t, "decorator") /\ loc[t].capability # None /\ loc[t].capability[1].inner # None =>
    LET tr == trace[t]
        inner == loc[t].capability[1].inner[1]
        invokes == KindIndexes(tr, "invoke")
        settles == KindIndexes(tr, "settle")
    IN /\ inner \in Capabilities /\ inner.id = op[t].capabilityId
       /\ Cardinality(invokes) = 1
       /\ \A i \in invokes : tr[i] = Invoked(inner.execute, op[t].input, op[t].config)
       /\ pc[t] = "execute" => settles = {} /\ result[t] = Pending
       /\ pc[t] = "done" =>
            /\ Cardinality(settles) = 1
            /\ \A j \in settles :
                 /\ tr[j].name = inner.execute
                 /\ SameOutcome(t, j)
                 /\ result[t] = ExecuteResult(inner.execute, op[t].input, tr[j].ok)

C15_Witness ==
  \E t \in Turns : /\ IsExecute(t, "decorator") /\ pc[t] = "done"
                   /\ op[t].capabilityId = "text" /\ op[t].config = Some("cfg")
                   /\ result[t] = Raised("f failed")
                   /\ EventIndexes(trace[t], "model.capability.error") # {}

\* What is visible of a provider's capabilities through hasCapability,
\* getCapability and getCapabilities.
Visible(target) == [ids |-> {i \in CapabilityIds : hasCapability(target, i)}, each |-> [i \in CapabilityIds |-> getCapability(target, i)], all |-> getCapabilities(target)]

\* C16: the decorator's capabilities are a snapshot.  When it is constructed its
\* ids are the model's ids of that moment, each decorating the model's
\* capability; later addCapability calls on the model change nothing that
\* hasCapability, getCapability, getCapabilities or executeCapability show
\* through the decorator (an id outside the snapshot stays not found), and
\* addCapability on the decorator leaves the model's table as it was.
C16_SnapshotAtWrapTime ==
  [][/\ decorator = None /\ decorator' # None =>
          /\ Visible("decorator")'.ids = Visible("model").ids
          /\ \A i \in Visible("model").ids : Visible("decorator")'.each[i] = Some(decoratedCapability(modelCapabilities[i]))
     /\ \A c \in Capabilities :
          /\ addCapability("model", c) /\ decorator # None => Visible("decorator")' = Visible("decorator")
          /\ addCapability("decorator", c) => Visible("model")' = Visible("model")
     /\ \A t \in Turns, i \in CapabilityIds, in \in Inputs, cfg \in Configs :
          Call_executeCapability(t, "decorator", i, in, cfg) /\ i \notin Visible("decorator").ids =>
            result'[t] = Raised(NotFoundMessage(i, ModelId)) /\ trace'[t] = <<>>]_vars

C16_Witness ==
  /\ decorator # None
  /\ DOMAIN decorator[1] = {"text"} /\ decorator[1]["text"].inner # None
  /\ DOMAIN modelCapabilities = {"text", "image"}
  /\ \E t \in Turns : IsExecute(t, "decorator") /\ op[t].capabilityId = "image" /\ pc[t] = "done" /\ result[t].status = "raised"

\* C17: checkHealth and init on the decorator publish no event; checkHealth
\* enters the model's checkHealth exactly once and ends as it ended; init enters
\* the model's init exactly once and ends as it ended when the model has one,
\* and otherwise returns without entering anything.
C17_HealthAndInitProxied ==
  \A t \in Turns : op[t].name \in {"checkHealth", "init"} /\ pc[t] = "done" =>
    LET tr == trace[t]
        invokes == KindIndexes(tr, "invoke")
        settles == KindIndexes(tr, "settle")
    IN /\ KindIndexes(tr, "event") = {}
       /\ IF op[t].name = "init" /\ ~modelHasInit
          THEN tr = <<>> /\ result[t] = Returned(<<>>)
          ELSE /\ Cardinality(invokes) = 1 /\ Cardinality(settles) = 1
               /\ \A i \in invokes : tr[i].name = op[t].name
               /\ \A j \in settles : tr[j].name = op[t].name /\ SameOutcome(t, j)

C17_Witness == \E t \in Turns : op[t].name = "init" /\ pc[t] = "done" /\ ~modelHasInit /\ result[t] = Returned(<<>>) /\ trace[t] = <<>>

\* C18: executeCapability(id, input, config) on the model, when id is not in its
\* table, raises "Capability <id> not found on model <provider id>" and enters
\* no execute function; when id is in the table it enters that capability's
\* execute exactly once with input and config and ends as it ended, returning
\* the result unchanged.  (A not-found call ends at once, so the table it ends
\* on is the table it looked the id up in; ids are never removed.)
C18_ExecuteDispatch ==
  \A t \in Turns : IsExecute(t, "model") =>
    LET tr == trace[t]
        invokes == KindIndexes(tr, "invoke")
        settles == KindIndexes(tr, "settle")
    IN IF ~hasCapability("model", op[t].capabilityId)
       THEN /\ pc[t] = "done" /\ tr = <<>>
            /\ result[t] = Raised("Capability " \o op[t].capabilityId \o " not found on model openai")
       ELSE /\ loc[t].capability # None /\ loc[t].capability[1] \in Capabilities
            /\ loc[t].capability[1].id = op[t].capabilityId
            /\ tr[1] = Invoked(loc[t].capability[1].execute, op[t].input, op[t].config)
            /\ invokes = {1} /\ KindIndexes(tr, "event") = {}
            /\ pc[t] = "execute" => settles = {} /\ result[t] = Pending
            /\ pc[t] = "done" => settles = {2} /\ SameOutcome(t, 2) /\ tr[2].name = tr[1].name
                                 /\ (tr[2].ok => result[t] = Returned(<<loc[t].capability[1].execute \o "(" \o op[t].input \o ")">>))

C18_Witness ==
  \E t \in Turns : /\ IsExecute(t, "model") /\ pc[t] = "done" /\ op[t].capabilityId = "image"
                   /\ result[t] = Raised("Capability image not found on model openai")
                   /\ DOMAIN modelCapabilities = {"text"}

\* C19: the capability table only grows or replaces.  After addCapability(c) on a
\* provider, hasCapability(c.id) holds and getCapability(c.id) is c, whatever
\* was there before, and every other id has the entry it had; and no step of
\* any operation removes an id from the model's or the decorator's table.
C19_TableGrowsOrReplaces ==
  [][/\ \A target \in Targets, c \in Capabilities :
          addCapability(target, c) =>
            /\ hasCapability(target, c.id)'
            /\ getCapability(target, c.id)' = Some(c)
            /\ \A k \in CapabilityIds \ {c.id} : getCapability(target, k)' = getCapability(target, k)
     /\ DOMAIN modelCapabilities \subseteq DOMAIN modelCapabilities'
     /\ decorator # None => decorator' # None /\ DOMAIN decorator[1] \subseteq DOMAIN decorator'[1]]_vars

C19_Witness ==
  /\ decorator # None
  /\ DOMAIN modelCapabilities = {"text", "image"}
  /\ "text" \in DOMAIN decorator[1] /\ decorator[1]["text"].inner = Some(ModelCapability("text", "f"))
  /\ modelCapabilities["text"] = ModelCapability("text", "g")
  /\ modelCapabilities["image"] = ModelCapability("image", "f")

\* C20: register of a plugin whose id starts with plugin- and is not yet in the
\* registry returns, and getPlugin(id) then gives that plugin; register of a
\* plugin whose id is already in the registry raises and leaves the registry as
\* it was; no step ever changes or removes a registered entry, and getPlugin(id)
\* returns the registry's entry for id, so it keeps returning the plugin that
\* was registered first.
C20_RegisterThenGet ==
  [][\A t \in Turns :
       /\ \A p \in Plugins :
            Call_register(t, Some(p)) /\ p.id.type = "string" /\ Len(p.id.value) >= 7 /\ SubSeq(p.id.value, 1, 7) = "plugin-" =>
              IF \E i \in 1..Len(plugins) : plugins[i].id = p.id
              THEN result'[t].status = "raised" /\ plugins' = plugins
              ELSE /\ result'[t] = Returned(<<>>)
                   /\ \E i \in 1..Len(plugins') : plugins'[i] = p
                   /\ \A i \in 1..Len(plugins') : plugins'[i].id = p.id => plugins'[i] = p
       /\ \A i \in 1..Len(plugins) : Len(plugins') >= i /\ plugins'[i] = plugins[i]
       /\ \A id \in LookupIds :
            Call_getPlugin(t, id) =>
              /\ plugins' = plugins
              /\ \A i \in 1..Len(plugins) : plugins[i].id.value = id => result'[t] = Returned(<<plugins[i]>>)
              /\ (\A i \in 1..Len(plugins) : plugins[i].id.value # id) => result'[t] = Returned(<<>>)]_vars

C20_Witness ==
  \E t \in Turns : /\ op[t].name = "register" /\ pc[t] = "done" /\ result[t].status = "raised"
                   /\ op[t].plugin = Some([id |-> JsString("plugin-a"), name |-> "q"])
                   /\ plugins = <<[id |-> JsString("plugin-b"), name |-> "p"], [id |-> JsString("plugin-a"), name |-> "p"]>>
                   /\ result[t].error = "Plugin ID collision: plugin-a is already registered.\nCurrently registered plugins: plugin-b, plugin-a"

\* C21: every id stored in the plugin registry is a non-empty string that
\* begins with plugin-; and register of null/undefined, or of a plugin whose id
\* is empty, is not a string, or does not begin with plugin-, raises an error
\* and leaves the registry as it was.
C21_RegistryIdInvariant ==
  [][/\ \A i \in 1..Len(plugins') :
          /\ plugins'[i].id.type = "string" /\ plugins'[i].id.value # ""
          /\ Len(plugins'[i].id.value) >= 7 /\ SubSeq(plugins'[i].id.value, 1, 7) = "plugin-"
     /\ \A t \in Turns, p \in PluginArgs :
          /\ Call_register(t, p)
          /\ \/ p = None
             \/ p[1].id.type # "string"
             \/ p[1].id.value = ""
             \/ Len(p[1].id.value) < 7
             \/ SubSeq(p[1].id.value, 1, 7) # "plugin-"
          => result'[t].status = "raised" /\ plugins' = plugins]_vars

C21_Witness ==
  \E t \in Turns : /\ op[t].name = "register" /\ pc[t] = "done"
                   /\ op[t].plugin = Some([id |-> JsNumber("7"), name |-> "p"])
                   /\ result[t] = Raised("Plugin ID must be a string")
                   /\ Len(plugins) = 2

\* The diagnostic event each delegating operation is said to publish.
DelegateEvent(name) ==
  IF name = "storeMessage" THEN "memory.service.store_message.called"
  ELSE IF name = "storeContext" THEN "memory.service.store_context.called"
  ELSE IF name = "getMessages" THEN "memory.service.get_messages.called"
  ELSE IF name = "getContexts" THEN "memory.service.get_contexts.called"
  ELSE IF name = "getConversation" THEN "memory.service.get_conversation.called"
  ELSE IF name = "createConversation" THEN "memory.service.create_conversation.called"
  ELSE "memory.service.delete_conversation.called"
Delegators == {"storeMessage", "storeContext", "getMessages", "getContexts", "getConversation", "createConversation", "deleteConversation"}

\* The call on turn t, called directly, forwarded once and ended as the provider did.
Forwarded(t, c) ==
  LET o == op[t]
      id == loc[t].conversationId
  IN /\ c.kind = "call" /\ c.name = o.name /\ c.conv = id
     /\ c.arg = (IF o.name \in {"storeMessage", "storeContext"} THEN <<o.record[1]>> ELSE IF o.name = "getMessages" THEN <<o.limit>> ELSE <<>>)
     /\ ~c.ok => result[t] = Raised(ProviderError(o.name))
     /\ c.ok => result[t] = Returned(IF o.name = "getMessages" THEN ProviderGetMessages(id, o.limit)
                                     ELSE IF o.name = "getContexts" THEN OfConversation(contexts, id)
                                     ELSE IF o.name = "getConversation" THEN <<[id |-> id]>>
                                     ELSE IF o.name = "createConversation" THEN <<id>>
                                     ELSE <<>>)

\* C22 (as claimed): every delegating operation, called directly, publishes one
\* diagnostic event, then issues the corresponding provider call exactly once
\* with the arguments it was given, and returns or raises what that call did.
C22_DelegatesLogAndForward ==
  \A t \in Turns : op[t].name \in Delegators /\ pc[t] = "done" =>
    /\ Len(trace[t]) = 2
    /\ trace[t][1].kind = "event" /\ trace[t][1].name = DelegateEvent(op[t].name)
    /\ Forwarded(t, trace[t][2])

\* What holds of deleteConversation: it forwards once and ends as the provider
\* did, and publishes nothing; the six other delegating operations are as claimed.
C22_DelegatesForward ==
  \A t \in Turns : op[t].name \in Delegators /\ pc[t] = "done" =>
    IF op[t].name = "deleteConversation"
    THEN Len(trace[t]) = 1 /\ Forwarded(t, trace[t][1])
    ELSE /\ Len(trace[t]) = 2
         /\ trace[t][1].kind = "event" /\ trace[t][1].name = DelegateEvent(op[t].name)
         /\ Forwarded(t, trace[t][2])

\* C23 (as claimed): no two writes carry the same id: the stored messages have
\* pairwise different ids and so have the stored contexts.
C23_WriteOnce ==
  /\ \A i, j \in 1..Len(messages) : i # j => messages[i].rec.id # messages[j].rec.id
  /\ \A i, j \in 1..Len(contexts) : i # j => contexts[i].rec.id # contexts[j].rec.id

\* The narrower statement that fails as well: within one conversation no two
\* stored contexts have the same id.
C23_WriteOnceContextsPerConversation ==
  \A i, j \in 1..Len(contexts) : i # j /\ contexts[i].conv = contexts[j].conv => contexts[i].rec.id # contexts[j].rec.id

\* The string contains no "-".
NoSeparator(str) == \A i \in 1..Len(str) : SubSeq(str, i, i) # "-"
IsHistory(t) == op[t].name = "getRecentConversationHistory"

\* C24 (as claimed): distinct (user, platform) pairs never share a conversation
\* id, also when the strings contain "-", so getRecentConversationHistory for a
\* pair returns only messages that pair stored.
C24_Isolation ==
  /\ \A i, j \in 1..Len(messages) : messages[i].rec.content # messages[j].rec.content => messages[i].conv # messages[j].conv
  /\ \A t \in Turns : IsHistory(t) /\ pc[t] = "done" =>
       \A i \in 1..Len(result[t].value) : result[t].value[i].content = OwnerText(op[t].user, op[t].platform)

\* C24 (amended): distinct pairs whose platform strings contain no "-" never
\* share a conversation id, whatever the user strings contain, so
\* getRecentConversationHistory for a pair on such a platform returns no message
\* stored by a different pair on such a platform.
C24_IsolationWithoutSeparator ==
  /\ \A u1, u2 \in SeparatorUsers, p1, p2 \in SeparatorPlatforms :
       <<u1, p1>> # <<u2, p2>> /\ NoSeparator(p1) /\ NoSeparator(p2) => generateConversationId(u1, p1) # generateConversationId(u2, p2)
  /\ \A t \in Turns : IsHistory(t) /\ pc[t] = "done" /\ NoSeparator(op[t].platform) =>
       \A i \in 1..Len(result[t].value) : \A u \in SeparatorUsers, p \in SeparatorPlatforms :
         result[t].value[i].content = OwnerText(u, p) /\ NoSeparator(p) => u = op[t].user /\ p = op[t].platform

C24_Witness ==
  \E t \in Turns : /\ IsHistory(t) /\ pc[t] = "done"
                   /\ op[t].user = "a-u" /\ op[t].platform = "web"
                   /\ result[t] = Returned(<<>>)
                   /\ Len(messages) = 1 /\ messages[1].conv = "web-u" /\ messages[1].rec.content = "u@web"

\* C25: storeAssistantInteraction is not transactional.  When its storeMessage
\* is rejected after its storeContext resolved, and no deleteConversation runs,
\* the call raises the storeMessage error, made no further provider call (no
\* compensating delete), the context it wrote is still in storage, the
\* conversation holds more contexts with that id than assistant messages that
\* reference it (none at all when the id is that of one context only), and
\* every stored assistant message still has its context in storage.
MessageWriteFailed(t) == IsAssistant(t) /\ pc[t] = "done" /\ \E i \in CallIndexes(trace[t], "storeMessage") : ~trace[t][i].ok

Resolved(tr, id, i) == \E j \in 1..(i - 1) : tr[j].kind = "call" /\ tr[j].name \in {"getConversation", "createConversation"} /\ tr[j].conv = id /\ tr[j].ok

C26_LazyCreationBeforeWrite ==
  /\ \A t \in Turns : IsUser(t) \/ IsAssistant(t) =>
       LET id == op[t].platform \o "-" \o op[t].user
           tr == trace[t]
       IN /\ \A i \in 1..Len(tr) : tr[i].kind = "call" /\ tr[i].name \in {"storeContext", "storeMessage"} => tr[i].conv = id /\ Resolved(tr, id, i)
          /\ pc[t] \in {"storeContext", "storeMessage"} => Resolved(tr, id, Len(tr) + 1) /\ id \in convs
          /\ pc[t] = "done" /\ result[t].status = "returned" => id \in convs
  /\ \A i \in 1..Len(messages) : messages[i].conv \in convs
  /\ \A i \in 1..Len(contexts) : contexts[i].conv \in convs

C26_Witness ==
  \E t \in Turns : /\ IsAssistant(t) /\ pc[t] = "done" /\ result[t].status = "returned"
                   /\ op[t].user = "v"
                   /\ \E i, j, k \in 1..Len(trace[t]) :
                        /\ i < j /\ j < k
                        /\ trace[t][i] = Call("createConversation", "web-v", <<>>, TRUE)
                        /\ IsCall(trace[t][j], "storeContext")
                        /\ IsCall(trace[t][k], "storeMessage")
                   /\ convs = {"web-v"}
                   /\ Len(messages) = 1 /\ messages[1].conv = "web-v"
                   /\ Len(contexts) = 1 /\ contexts[1].conv = "web-v"

\* The call raised not-found at once: no event, no invocation, nothing changed.
NotFoundAtOnce(t, capabilityId) ==
  /\ pc'[t] = "done"
  /\ result'[t] = Raised(NotFoundMessage(capabilityId, ModelId))
  /\ trace'[t] = <<>>
  /\ UNCHANGED componentVars

\* C27 (as claimed): executeCapability through the decorator for an id that was
\* not in the model when the decorator was constructed raises not-found, with no
\* event and no invocation, also when the model has gained the id since.  The
\* model and the decorator never lose an id, so an id that is missing from the
\* decorator's table, or from the model's table, was not in the model then.
C27_NotAtWrapTimeNotFound ==
  [][\A t \in Turns, i \in CapabilityIds, in \in Inputs, cfg \in Configs :
       Call_executeCapability(t, "decorator", i, in, cfg) /\ (i \notin DOMAIN decorator[1] \/ i \notin DOMAIN modelCapabilities) =>
         NotFoundAtOnce(t, i)]_vars

\* C27 (amended): executeCapability through the decorator raises not-found, with
\* no event, no invocation and no change to either table, exactly when the id is
\* not in the decorator's own table, whether or not the model has the id by
\* then; an id in the decorator's table, the ones added through the decorator's
\* own addCapability included, is executed.
C27_OutsideDecoratorNotFound ==
  [][\A t \in Turns, i \in CapabilityIds, in \in Inputs, cfg \in Configs :
       Call_executeCapability(t, "decorator", i, in, cfg) =>
         IF i \notin DOMAIN decorator[1]
         THEN NotFoundAtOnce(t, i)
         ELSE /\ pc'[t] = "execute" /\ result'[t] = Pending
              /\ KindIndexes(trace'[t], "invoke") # {}]_vars

C27_Witness ==
  /\ decorator # None /\ "image" \notin DOMAIN decorator[1] /\ "image" \in DOMAIN modelCapabilities
  /\ \E t \in Turns : /\ IsExecute(t, "decorator") /\ op[t].capabilityId = "image" /\ pc[t] = "done"
                      /\ result[t] = Raised("Capability image not found on model openai")
                      /\ trace[t] = <<>>

\* C28: getRecentConversationHistory is read-only.  The step that runs it makes
\* one provider call, getMessages for platform-user, and leaves the
\* conversations, messages and contexts and the number of create requests as
\* they were, whether or not the conversation exists and whether or not
\* getMessages fails: a pair without a conversation still has none afterwards.
C28_HistoryReadOnly ==
  [][\A t \in Turns : ~IsHistory(t) /\ IsHistory(t)' =>
       LET tr == trace'[t]
           calls == {i \in 1..Len(tr) : tr[i].kind = "call"}
       IN /\ pc'[t] = "done" /\ result'[t].status = "returned"
          /\ Cardinality(calls) = 1
          /\ \A i \in calls : tr[i].name = "getMessages" /\ tr[i].conv = op'[t].platform \o "-" \o op'[t].user
          /\ UNCHANGED <<convs, messages, contexts, creates>>]_vars

C28_Witness ==
  \E t \in Turns : /\ IsHistory(t) /\ pc[t] = "done"
                   /\ op[t].user = "v" /\ op[t].platform = "web"
                   /\ result[t] = Returned(<<>>)
                   /\ CallIndexes(trace[t], "getMessages") # {}
                   /\ "web-v" \notin convs /\ creates["web-v"] = 0
                   /\ "web-u" \in convs /\ messages # <<>>

=============================================================================
